---- MODULE Spec2Model ----
(***************************************************************************)
(* A model of nlpy's AmplModel (src/nlpy/model/amplpy.py), the subclass of *)
(* NLPModel (src/nlpy/model/nlp.py) that classifies constraints and bounds *)
(* at construction and computes first-order optimality residuals.          *)
(*                                                                         *)
(* Numbers are integers (every residual is a sum, difference, product, min *)
(* or abs of the inputs, exact on small integers); the residual scalings   *)
(* and the stopping tolerances are ratios <<num, den>> with den > 0.       *)
(* A session on a model with fractional data counts its numbers in units   *)
(* of 1/den: the integer k stands for k/den, and den is 1 otherwise.       *)
(* Arrays are sequences; the code's 0-based index i is position i+1.       *)
(***************************************************************************)
EXTENDS Integers, Sequences, FiniteSets, TLC

\* ------------------------------------------------------------------ bounds
\* Largest number of variables of a model.
MaxVars == 2
\* Largest number of variables plus general constraints of a model.
MaxDim == 3
\* A session stops evaluating once an evaluation counter reaches MaxEvals.
MaxEvals == 1

\* ------------------------------------------------------- program constants
\* np.inf: larger than every finite number of the model.
Infinity == 1000
negInfinity == -Infinity

VARIABLES
  den,                                  \* the numbers count units of 1/den
  model,                                \* the backend's own problem data
  n, m, minimize,                       \* model.n_var, model.n_con, objtype
  class_id, instances,                  \* the _id of each class; the models made
  Lvar, Uvar, Lcon, Ucon, pi0,          \* bound arrays, initial multipliers
  equalC, lowerC, upperC, rangeC, freeC, permC,
  fixedB, lowerB, upperB, rangeB, freeB, permB,
  stop_d, stop_c, stop_p,               \* stopping tolerances (ratios)
  scale_obj, scale_con,                 \* None or the cached scale
  feval, geval, ceval, Jeval,           \* evaluation counters
  ret                                   \* what the last call handed back

registry == <<class_id, instances>>
dims     == <<den, model, n, m, minimize, registry>>
arrays   == <<Lvar, Uvar, Lcon, Ucon, pi0>>
classesC == <<equalC, lowerC, upperC, rangeC, freeC, permC>>
classesB == <<fixedB, lowerB, upperB, rangeB, freeB, permB>>
tols     == <<stop_d, stop_c, stop_p>>
scales   == <<scale_obj, scale_con>>
counters == <<feval, geval, ceval, Jeval>>
vars     == <<dims, arrays, classesC, classesB, tols, scales, counters, ret>>

\* None for a message; NoScale for an unset scale_obj / scale_con, a set one
\* being <<value>>; NoRet when no call result is held.
None    == "None"
NoScale == <<>>
NoRet   == [op |-> "none"]

\* ----------------------------------------------------------- numpy helpers
Min2(a, b) == IF a <= b THEN a ELSE b
Max2(a, b) == IF a >= b THEN a ELSE b
Abs(a)     == IF a < 0 THEN -a ELSE a

\* seq[idx] for a list idx of 0-based indices (numpy fancy indexing).
Take(seq, idx) == [k \in 1..Len(idx) |-> seq[idx[k] + 1]]

\* seq[a:b] (0-based, end excluded, clipped to the array as numpy does).
Slice(seq, a, b) ==
  LET lo == Min2(a, Len(seq))
      hi == Min2(b, Len(seq))
  IN  IF hi <= lo THEN <<>> ELSE [k \in 1..(hi - lo) |-> seq[lo + k]]

\* seq[a:]
SliceFrom(seq, a) == Slice(seq, a, Len(seq))

\* Elementwise operations on arrays of equal length.
VAdd(u, v)  == [k \in 1..Len(u) |-> u[k] + v[k]]
VSub(u, v)  == [k \in 1..Len(u) |-> u[k] - v[k]]
VMul(u, v)  == [k \in 1..Len(u) |-> (u[k] * v[k]) \div den]
VNeg(u)     == [k \in 1..Len(u) |-> -u[k]]
\* np.minimum(np.zeros(len), u)
VMin0(u)    == [k \in 1..Len(u) |-> Min2(0, u[k])]

\* len(np.where(u < 0)[0]) > 0
AnyNegative(u) == \E k \in 1..Len(u) : u[k] < 0

RECURSIVE SumAbs(_)
\* np.linalg.norm(u, ord=1); 0 on an empty array.
SumAbs(u) == IF Len(u) = 0 THEN 0 ELSE Abs(Head(u)) + SumAbs(Tail(u))

RECURSIVE MaxAbs(_)
\* np.linalg.norm(u, ord=np.inf) on a non-empty array.
MaxAbs(u) == IF Len(u) = 1 THEN Abs(u[1]) ELSE Max2(Abs(Head(u)), MaxAbs(Tail(u)))

\* ----------------------------------------------------------- classification
\* The if/elif chain of the two classification loops of __init__.
ClassOfMut(lo, up) ==
  IF lo > negInfinity /\ up < Infinity
    THEN "range"
    ELSE IF lo > negInfinity THEN "lower"
    ELSE IF up < Infinity THEN "upper"
    ELSE "free"

ClassOf(lo, up) ==
  IF lo > negInfinity /\ up < Infinity
    THEN (IF lo = up THEN "equal" ELSE "range")
    ELSE IF lo > negInfinity THEN "lower"
    ELSE IF up < Infinity THEN "upper"
    ELSE "free"

\* The list a loop `for i in range(len): if class(i) = cls: list.append(i)` builds.
IndicesOf(lo, up, cls) ==
  SelectSeq([k \in 1..Len(lo) |-> k - 1],
            LAMBDA i : ClassOf(lo[i + 1], up[i + 1]) = cls)

\* self.permC = equalC + lowerC + upperC + rangeC
PermCOf(eq, lo, up, rg) == eq \o lo \o up \o rg

\* self.permB = fixedB + lowerB + upperB + rangeB + freeB
PermBOf(fx, lo, up, rg, fr) == fx \o lo \o up \o rg \o fr

nequalC == Len(equalC)
nlowerC == Len(lowerC)
nupperC == Len(upperC)
nrangeC == Len(rangeC)
nfreeC  == Len(freeC)
nfixedB == Len(fixedB)
nlowerB == Len(lowerB)
nupperB == Len(upperB)
nrangeB == Len(rangeB)
nfreeB  == Len(freeB)
nbounds == n - nfreeB

\* ------------------------------------------------------------ the backend
\* The problem the backend evaluates: objective sum_j x_j^2, linear
\* constraints c_i(x) = sum_j A[i][j] x_j with the coefficients A of the
\* model file.
AEntry(i, j) == model.A[i + 1][j + 1]

RECURSIVE Dot(_, _)
Dot(u, v) == IF Len(u) = 0 THEN 0 ELSE Head(u) * Head(v) + Dot(Tail(u), Tail(v))

\* model.grad_obj(x): the raw gradient of the objective.
grad_obj(x) == [j \in 1..Len(x) |-> 2 * x[j]]

\* model.eval_cons(x): the constraints in natural order.
eval_cons(x) == [i \in 1..m |-> Dot([j \in 1..Len(x) |-> AEntry(i - 1, j - 1)], x)]

\* model.eval_J(x): the Jacobian, one row per constraint in natural order.
eval_J(x) == [i \in 1..m |-> [j \in 1..Len(x) |-> AEntry(i - 1, j - 1)]]

\* model.get_pi0(): the initial multiplier estimate of the model file.
get_pi0(mm) == [i \in 1..mm |-> 2 * i]

\* model.get_Lcon(), model.get_Ucon(): the constraint bounds of the model
\* file, a fresh array at each call.
get_Lcon == model.Lcon
get_Ucon == model.Ucon

\* ------------------------------------------------------------------ ratios
\* a/b for a ratio a and a ratio b > 0.
RDiv(a, b) == <<a[1] * b[2], a[2] * b[1]>>
RAdd(a, b) == <<a[1] * b[2] + b[1] * a[2], a[2] * b[2]>>
RLe(a, b)  == a[1] * b[2] <= b[1] * a[2]
RMax(a, b) == IF RLe(b, a) THEN a ELSE b
ROne       == <<1, 1>>
RInt(k)    == <<k, 1>>
\* The ratio a number of the session stands for.
RNum(k)    == <<k, den>>

\* --------------------------------------------------------------- evaluators
\* a * s for a number a and a scale s (a ratio); an infinite a stays infinite.
\* The scales of the model are 1 and 1/2 and the numbers they multiply are
\* even, so that the product is exact, here as in floating point.
Times(a, s) ==
  IF a = Infinity \/ a = negInfinity THEN a ELSE (a * s[1]) \div s[2]

\* v * s for a vector v and a scale s.
ScaleBy(v, s) == [k \in 1..Len(v) |-> Times(v[k], s)]

\* v * d for a vector v and a vector d of scales (componentwise product).
ScaleEach(v, d) == [k \in 1..Len(v) |-> Times(v[k], d[k])]

\* AmplModel.grad: the gradient, scaled if a scale is cached, negated for a
\* maximization problem. Counts one gradient evaluation.
grad(x) ==
  LET g  == grad_obj(x)
      gs == IF scale_obj # NoScale THEN ScaleBy(g, scale_obj[1]) ELSE g
  IN  IF minimize THEN gs ELSE VNeg(gs)

\* AmplModel.cons: the constraints in natural order, scaled if a scale is
\* cached. Counts one constraint evaluation.
cons(x) ==
  LET c == eval_cons(x)
  IN  IF scale_con # NoScale
        THEN ScaleEach(c, scale_con[1])
        ELSE c

\* AmplModel.jac: the Jacobian rows in natural order, scaled if a scale is
\* cached. Counts one Jacobian evaluation.
jac(x) ==
  LET J == eval_J(x)
  IN  IF scale_con # NoScale
        THEN [i \in 1..Len(J) |-> ScaleBy(J[i], scale_con[1][i])]
        ELSE J

\* J.matvec_transp(u): J^T u for J a sequence of rows of length nn.
MatvecTransp(J, u, nn) ==
  [j \in 1..nn |-> Dot([i \in 1..Len(J) |-> J[i][j]], u)]

\* vec[idx] += sgn * vals for a list idx of distinct 0-based indices.
AddAt(vec, idx, vals, sgn) ==
  [j \in 1..Len(vec) |->
     IF \E k \in 1..Len(idx) : idx[k] = j - 1
       THEN vec[j] + sgn * vals[CHOOSE k \in 1..Len(idx) : idx[k] = j - 1]
       ELSE vec[j]]

\* ------------------------------------------------------ OptimalityResiduals
\* What a call hands back: an exception, or a value with the evaluations made.
RaiseMut(exc, msg, dc, dJ, dg) ==
  [kind |-> "raise", exc |-> exc, msg |-> msg, dc |-> 1, dJ |-> dJ, dg |-> dg]

Raise(exc, msg, dc, dJ, dg) ==
  [kind |-> "raise", exc |-> exc, msg |-> msg, dc |-> dc, dJ |-> dJ, dg |-> dg]

\* The keyword FJ: <<>> when absent, <<w>> when given the weight w.
NoFJ == <<>>

\* The sign checks on the multipliers, in the order the code makes them: the
\* message of the first one that raises, or None.
SignErrorMut(y, z) ==
  IF m > 0 /\ AnyNegative(y)
    THEN "Negative Lagrange multipliers..."
  ELSE IF nbounds > 0 /\ AnyNegative(SliceFrom(z, nfixedB))
    THEN "Negative Lagrange multipliers for bounds..."
  ELSE None

SignError(y, z) ==
  LET n1 == nequalC
      n2 == n1 + nlowerC
      n3 == n2 + nupperC
      n4 == n3 + nrangeC
  IN  IF m > 0 /\ AnyNegative(SliceFrom(y, nequalC))
        THEN "Negative Lagrange multipliers..."
      ELSE IF nbounds > 0 /\ AnyNegative(SliceFrom(z, nfixedB))
        THEN "Negative Lagrange multipliers for bounds..."
      ELSE IF AnyNegative(Slice(y, n1, n2))
        THEN "Negative multipliers for lower constraints..."
      ELSE IF AnyNegative(Slice(y, n2, n3))
        THEN "Negative multipliers for upper constraints..."
      ELSE IF AnyNegative(Slice(y, n3, n4)) \/ AnyNegative(SliceFrom(y, n4))
        THEN "Negative multipliers for range constraints..."
      ELSE IF nbounds > 0 /\ AnyNegative(SliceFrom(z, nfixedB))
        THEN "Negative multipliers for bounds..."
      ELSE None

\* Bounds feasibility, part 1: [fixed | lower | upper | range-lower |
\* range-upper] slacks before clamping.
BoundSlacks(x) ==
  VSub(Take(x, fixedB), Take(Lvar, fixedB))
    \o VSub(Take(x, lowerB), Take(Lvar, lowerB))
    \o VSub(Take(Uvar, upperB), Take(x, upperB))
    \o VSub(Take(x, rangeB), Take(Lvar, rangeB))
    \o VSub(Take(Uvar, rangeB), Take(x, rangeB))

\* Complementarity of bound constraints: bRes[n1:] * z[n1:], before clamping.
BoundComp(bRes, z) == VMul(SliceFrom(bRes, nfixedB), SliceFrom(z, nfixedB))

\* Bounds feasibility, part 2: every block but the fixed one clamped at 0.
BoundClampMut(bRes) ==
  LET n1 == nfixedB
      n2 == n1 + nlowerB
  IN  Slice(bRes, 0, n2) \o VMin0(SliceFrom(bRes, n2))

BoundClamp(bRes) ==
  LET n1 == nfixedB
      n2 == n1 + nlowerB
      n3 == n2 + nupperB
      n4 == n3 + nrangeB
  IN  Slice(bRes, 0, n1)
        \o VMin0(Slice(bRes, n1, n2)) \o VMin0(Slice(bRes, n2, n3))
        \o VMin0(Slice(bRes, n3, n4)) \o VMin0(SliceFrom(bRes, n4))

\* pFeas[:m] = cons(x)[permC] ; pFeas[m:] = pFeas[rangeC]: the second
\* statement indexes the permuted vector with the natural indices in rangeC.
PrimalInit(x) ==
  LET cperm == Take(cons(x), permC)
  IN  cperm \o Take(cperm, rangeC)

\* Primal feasibility, part 1: the bound of each block subtracted, the upper
\* blocks sign-flipped.
PrimalShiftMut(pF) == pF

PrimalShift(pF) ==
  LET n1 == nequalC
      n2 == n1 + nlowerC
      n3 == n2 + nupperC
      n4 == n3 + nrangeC
  IN  VSub(Slice(pF, 0, n1), Take(Lcon, equalC))
        \o VSub(Slice(pF, n1, n2), Take(Lcon, lowerC))
        \o VNeg(VSub(Slice(pF, n2, n3), Take(Ucon, upperC)))
        \o VSub(Slice(pF, n3, n4), Take(Lcon, rangeC))
        \o VNeg(VSub(SliceFrom(pF, n4), Take(Ucon, rangeC)))

\* Complementarity of general constraints: pFeas[n1:] * y[n1:].
GeneralComp(pF, y) == VMul(SliceFrom(pF, nequalC), SliceFrom(y, nequalC))

\* Primal feasibility, part 2: every block but the equality one clamped at 0.
PrimalClamp(pF) ==
  LET n1 == nequalC
      n2 == n1 + nlowerC
      n3 == n2 + nupperC
      n4 == n3 + nrangeC
  IN  Slice(pF, 0, n1)
        \o VMin0(Slice(pF, n1, n2)) \o VMin0(Slice(pF, n2, n3))
        \o VMin0(Slice(pF, n3, n4)) \o VMin0(SliceFrom(pF, n4))

\* Build vector of Lagrange multipliers: one entry per constraint in canonical
\* order, range sides combined, upper block sign-flipped.
YlocMut(y) ==
  LET n1 == nequalC
      n2 == n1 + nlowerC
      n3 == n2 + nupperC
      n4 == n3 + nrangeC
  IN  Slice(y, 0, n3) \o VSub(Slice(y, n3, n4), SliceFrom(y, n4))

Yloc(y) ==
  LET n1 == nequalC
      n2 == n1 + nlowerC
      n3 == n2 + nupperC
      n4 == n3 + nrangeC
      y1 == IF nrangeC > 0
              THEN Slice(y, 0, n3) \o VSub(Slice(y, n3, n4), SliceFrom(y, n4))
              ELSE y
  IN  Slice(y1, 0, n2) \o VNeg(Slice(y1, n2, n3)) \o SliceFrom(y1, n3)

\* Dual feasibility before the objective term: J^T(-yloc) with the rows of J
\* in canonical order, then the bound multipliers.
DualMultTerms(x, y, z) ==
  LET d0 == IF m > 0
              THEN MatvecTransp(Take(jac(x), permC), VNeg(Yloc(y)), n)
              ELSE [j \in 1..n |-> 0]
      f1 == nfixedB
      f2 == f1 + nlowerB
      f3 == f2 + nupperB
      f4 == f3 + nrangeB
      d1 == AddAt(d0, lowerB, Slice(z, f1, f2), -1)
      d2 == AddAt(d1, upperB, Slice(z, f2, f3), 1)
  IN  AddAt(d2, rangeB, VSub(Slice(z, f3, f4), SliceFrom(z, f4)), -1)

\* The KKT branch: dFeas += g for a minimization problem, dFeas -= g for a
\* maximization problem, with g = self.grad(x).
AddGradientMut(d, x) == d

AddGradient(d, x) ==
  LET g == grad(x)
  IN  IF minimize THEN VAdd(d, g) ELSE VSub(d, g)

\* "See if we are checking the Fritz-John conditions": without FJ the
\* gradient is evaluated and added; with FJ = 0 it is neither (a nonzero FJ
\* does not get this far). d is the dual feasibility, dg the gradient
\* evaluations made.
ObjectiveTermMut(d, x, FJ) == [d |-> AddGradient(d, x), dg |-> 1]

ObjectiveTerm(d, x, FJ) ==
  IF FJ = NoFJ THEN [d |-> AddGradient(d, x), dg |-> 1] ELSE [d |-> d, dg |-> 0]

\* Compute scalings: the ratios attached to the bundle.
Scalings(y, z) ==
  LET dS0 == ROne
      dS1 == IF m > 0 THEN RAdd(dS0, <<SumAbs(y), den * Len(y)>>) ELSE dS0
      gS  == IF m > nequalC
               THEN <<den + SumAbs(Take(y, lowerC \o upperC \o rangeC))
                        + (IF nrangeC > 0 THEN SumAbs(SliceFrom(y, m)) ELSE 0),
                      den * (nlowerC + nupperC + 2 * nrangeC)>>
               ELSE ROne
      hasB == nlowerB + nupperB + nrangeB > 0
      bS  == IF hasB THEN RAdd(ROne, <<SumAbs(z), den * Len(z)>>) ELSE ROne
      dS2 == IF hasB THEN RAdd(dS1, <<SumAbs(z), den * Len(z)>>) ELSE dS1
  IN  [dFeas |-> dS2, pFeas |-> ROne, bFeas |-> ROne, gComp |-> gS, bComp |-> bS]

\* AmplModel.OptimalityResiduals(x, y, z, FJ=...).
OptimalityResiduals(x, y, z, FJ) ==
  LET serr  == SignError(y, z)
      slack == BoundSlacks(x)
      bComp == BoundComp(slack, z)
      bRes  == BoundClamp(slack)
      pF1   == PrimalShift(PrimalInit(x))
      gComp == GeneralComp(pF1, y)
      pFeas == PrimalClamp(pF1)
      dJ    == IF m > 0 THEN 1 ELSE 0
      obj   == ObjectiveTerm(DualMultTerms(x, y, z), x, FJ)
  IN  IF serr # None THEN Raise("ValueError", serr, 0, 0, 0)
      \* With a free constraint permC is shorter than m: numpy rejects the
      \* shapes at pFeas[:m] = cons(x)[permC], at pFeas[n4:] -= Ucon[rangeC]
      \* or at yloc[n3:n4] -= y[n4:], each after cons(x) and before jac(x).
      ELSE IF nfreeC > 0 THEN Raise("ValueError", "shape mismatch", 1, 0, 0)
      \* objMult * sign * self.grad(x): the name sign is not defined.
      ELSE IF FJ # NoFJ /\ FJ[1] # 0
        THEN Raise("NameError", "name 'sign' is not defined", 1, dJ, 0)
      ELSE [kind    |-> "return",
            dFeas   |-> obj.d,
            pFeas   |-> pFeas,
            bFeas   |-> bRes,
            gComp   |-> gComp,
            bComp   |-> bComp,
            scaling |-> Scalings(y, z),
            dc |-> 1, dJ |-> dJ, dg |-> obj.dg]

\* ------------------------------------------------------------ construction
\* Bound pairs a model file can give one variable or constraint: free,
\* fixed/equal, lower only, upper only, two-sided.
BoundPairs ==
  { <<negInfinity, Infinity>>, <<1, 1>>, <<1, Infinity>>,
    <<negInfinity, 2>>, <<1, 2>> }

BoundArrays(len) == [1..len -> BoundPairs]

\* The same five for a constraint, with the finite bounds 2 and 4.
ConBoundPairs ==
  { <<negInfinity, Infinity>>, <<2, 2>>, <<2, Infinity>>,
    <<negInfinity, 4>>, <<2, 4>> }

ConBoundArrays(len) == [1..len -> ConBoundPairs]

Lows(bp) == [k \in 1..Len(bp) |-> bp[k][1]]
Ups(bp)  == [k \in 1..Len(bp) |-> bp[k][2]]

\* 1.0e-5
DefaultTol == <<1, 100000>>

\* The cost vector c an LPModel stores for the problem: c[j] = 2 (j+1).
Cost == [j \in 1..n |-> 2 * j]

\* AmplModel.__init__ on a model file with the variable bounds bv, the
\* constraint bounds bc and the constraint coefficients A, in a process that
\* has only defined the classes: _id = -1 in the body of NLPModel, and no
\* generic model made yet.
ConstructModel(bv, bc, A) ==
  /\ Lvar = Lows(bv) /\ Uvar = Ups(bv)
  /\ model = [Lcon |-> Lows(bc), Ucon |-> Ups(bc), A |-> A, c |-> Cost]
  /\ Lcon = get_Lcon /\ Ucon = get_Ucon
  /\ pi0 = get_pi0(m)
  /\ equalC = IndicesOf(Lcon, Ucon, "equal")
  /\ rangeC = IndicesOf(Lcon, Ucon, "range")
  /\ lowerC = IndicesOf(Lcon, Ucon, "lower")
  /\ upperC = IndicesOf(Lcon, Ucon, "upper")
  /\ freeC  = IndicesOf(Lcon, Ucon, "free")
  /\ permC  = PermCOf(equalC, lowerC, upperC, rangeC)
  /\ fixedB = IndicesOf(Lvar, Uvar, "equal")
  /\ rangeB = IndicesOf(Lvar, Uvar, "range")
  /\ lowerB = IndicesOf(Lvar, Uvar, "lower")
  /\ upperB = IndicesOf(Lvar, Uvar, "upper")
  /\ freeB  = IndicesOf(Lvar, Uvar, "free")
  /\ permB  = PermBOf(fixedB, lowerB, upperB, rangeB, freeB)
  /\ stop_d = DefaultTol /\ stop_c = DefaultTol /\ stop_p = DefaultTol
  /\ scale_obj = NoScale /\ scale_con = NoScale
  /\ feval = 0 /\ geval = 0 /\ ceval = 0 /\ Jeval = 0
  /\ class_id = [cls \in {"NLPModel"} |-> -1]
  /\ instances = <<>>
  /\ ret = NoRet

\* The coefficients of the model files with integer data:
\* A[i][j] = 2 + 2 ((i+j) mod 2).
Coefficients == [i \in 1..m |-> [j \in 1..n |-> 2 + 2 * ((i + j) % 2)]]

\* AmplModel.__init__ on a model file with integer data.
Construct(bv, bc) == den = 1 /\ ConstructModel(bv, bc, Coefficients)

\* The models of the model files with lower <= upper everywhere.
Init ==
  /\ n \in 1..MaxVars
  /\ m \in 0..(MaxDim - n)
  /\ minimize \in BOOLEAN
  /\ \E bv \in BoundArrays(n), bc \in ConBoundArrays(m) : Construct(bv, bc)

\* Model files may also hold a lower bound above the upper bound.
AnyBoundArrays(len)    == [1..len -> BoundPairs \cup {<<2, 1>>}]
AnyConBoundArrays(len) == [1..len -> ConBoundPairs \cup {<<4, 2>>}]

\* The models of all model files.
InitAny ==
  /\ n \in 1..MaxVars
  /\ m \in 0..(MaxDim - n)
  /\ minimize \in BOOLEAN
  /\ \E bv \in AnyBoundArrays(n), bc \in AnyConBoundArrays(m) : Construct(bv, bc)

\* The model file with two variables bounded below by 0, the objective
\* x0^2 + x1^2 and the constraint x0 + x1 = 1, in a session that counts
\* quarters.
InitExample ==
  /\ den = 4
  /\ n = 2 /\ m = 1 /\ minimize = TRUE
  /\ ConstructModel(<< <<0, Infinity>>, <<0, Infinity>> >>,
                    << <<1 * den, 1 * den>> >>,
                    << <<1, 1>> >>)

\* ------------------------------------------------------------- AtOptimality
\* `if scale: v /= s`: a norm v divided by its scaling s when scale is set.
ApplyScaleMut(v, s, scale) == v

ApplyScale(v, s, scale) == IF scale THEN RDiv(v, s) ELSE v

\* AmplModel.AtOptimality after its call of OptimalityResiduals: res is what
\* that call handed back.
Verdict(res, scale) ==
  LET sc  == res.scaling
      df  == ApplyScale(RNum(MaxAbs(res.dFeas)), sc.dFeas, scale)
      fs0 == IF m > 0 THEN RNum(MaxAbs(res.pFeas)) ELSE RInt(0)
      cp0 == IF m > nequalC THEN RNum(MaxAbs(res.gComp)) ELSE RInt(0)
      cp1 == IF m > 0 THEN ApplyScale(cp0, sc.gComp, scale) ELSE cp0
      fs1 == IF m > 0 THEN ApplyScale(fs0, sc.pFeas, scale) ELSE fs0
      bcp == ApplyScale(RNum(MaxAbs(res.bComp)), sc.bComp, scale)
      bfs == ApplyScale(RNum(MaxAbs(res.bFeas)), sc.bFeas, scale)
      cp  == IF nbounds > 0 THEN RMax(cp1, bcp) ELSE cp1
      fs  == IF nbounds > 0 THEN RMax(fs1, bfs) ELSE fs1
  IN  IF res.kind = "raise" THEN res
      \* np.linalg.norm(res.bComp, ord=np.inf) on an empty array: numpy has
      \* no maximum of nothing.
      ELSE IF nbounds > 0 /\ Len(res.bComp) = 0
        THEN Raise("ValueError", "zero-size array to reduction operation",
                   res.dc, res.dJ, res.dg)
      ELSE [kind |-> "return", res |-> res,
            opt |-> RLe(df, stop_d) /\ RLe(cp, stop_c) /\ RLe(fs, stop_p),
            dc |-> res.dc, dJ |-> res.dJ, dg |-> res.dg]

\* AmplModel.AtOptimality(x, y, z, scale, FJ=...).
AtOptimality(x, y, z, scale, FJ) ==
  Verdict(OptimalityResiduals(x, y, z, FJ), scale)

\* ------------------------------------------------------------------ inputs
\* Entries of a point x.
XVals == {0, 1, 3}
\* The inputs of a session are multiples of Grid: of 1, or of 1/2 in a
\* session that counts quarters, whose products are then exact.
Grid == IF den = 1 THEN 1 ELSE den \div 2
Points == [1..n -> {Grid * v : v \in XVals}]

\* Multiplier vectors of a given length: all entries b, but for at most one
\* entry v.
Profiles(len) ==
  { [k \in 1..len |-> Grid * (IF k = p THEN v ELSE b)] :
      b \in {0, 1}, p \in 0..len, v \in {-1, 2} }

\* y has length m + nrangeC and z has length nbounds + nrangeB.
LenY == m + nrangeC
LenZ == nbounds + nrangeB
Multipliers ==
  { <<Slice(w, 0, LenY), SliceFrom(w, LenY)>> : w \in Profiles(LenY + LenZ) }

FJVals == {NoFJ, <<0>>, <<2>>}

\* ----------------------------------------------------------------- actions
MayEvaluate == ceval < MaxEvals /\ geval < MaxEvals /\ Jeval < MaxEvals

\* A caller invokes OptimalityResiduals(x, y, z) or
\* OptimalityResiduals(x, y, z, FJ=w).
CallOptimalityResiduals ==
  /\ ret = NoRet
  /\ MayEvaluate
  /\ \E x \in Points, yz \in Multipliers, FJ \in FJVals :
       LET out == OptimalityResiduals(x, yz[1], yz[2], FJ)
       IN  /\ ret' = [op |-> "OptimalityResiduals", x |-> x, y |-> yz[1],
                      z |-> yz[2], FJ |-> FJ, out |-> out]
           /\ ceval' = ceval + ret'.out.dc
           /\ Jeval' = Jeval + ret'.out.dJ
           /\ geval' = geval + ret'.out.dg
  /\ UNCHANGED <<dims, arrays, classesC, classesB, tols, scales, feval>>

\* A caller invokes AtOptimality(x, y, z, scale).
CallAtOptimality ==
  /\ ret = NoRet
  /\ MayEvaluate
  /\ \E x \in Points, yz \in Multipliers, scale \in BOOLEAN :
       LET out == AtOptimality(x, yz[1], yz[2], scale, NoFJ)
       IN  /\ ret' = [op |-> "AtOptimality", x |-> x, y |-> yz[1],
                      z |-> yz[2], FJ |-> NoFJ, scale |-> scale, out |-> out]
           /\ ceval' = ceval + ret'.out.dc
           /\ Jeval' = Jeval + ret'.out.dJ
           /\ geval' = geval + ret'.out.dg
  /\ UNCHANGED <<dims, arrays, classesC, classesB, tols, scales, feval>>

\* The caller is done with what the last call handed back.
Discard ==
  /\ ret # NoRet
  /\ ret' = NoRet
  /\ UNCHANGED <<dims, arrays, classesC, classesB, tols, scales, counters>>

\* The setters of the properties stop_d, stop_c, stop_p: what an assignment
\* of value stores.
SetTolMut(value) == RInt(Abs(value))

SetTol(value) == RInt(Max2(0, value))

\* NLPModel.set_stopping_tolerances(stop_d, stop_p, stop_c): three property
\* assignments, each storing max(0, value).
TolVals == {-1, 0, 1}
TolTriples ==
  { t \in [1..3 -> TolVals] : Cardinality({k \in 1..3 : t[k] = 1}) >= 2 }

set_stopping_tolerances ==
  /\ ret = NoRet
  /\ \E t \in TolTriples :
       /\ stop_d' = SetTol(t[1])
       /\ stop_p' = SetTol(t[2])
       /\ stop_c' = SetTol(t[3])
  /\ UNCHANGED <<dims, arrays, classesC, classesB, scales, counters, ret>>

\* A caller assigns value to one of model.stop_d, model.stop_c, model.stop_p.
AssignTolerance ==
  /\ ret = NoRet
  /\ \E attr \in {"stop_d", "stop_c", "stop_p"}, value \in TolVals :
       /\ ret' = [op |-> "assign", attr |-> attr, value |-> value,
                  out |-> [kind |-> "return"]]
       /\ stop_d' = IF attr = "stop_d" THEN SetTol(value) ELSE stop_d
       /\ stop_c' = IF attr = "stop_c" THEN SetTol(value) ELSE stop_c
       /\ stop_p' = IF attr = "stop_p" THEN SetTol(value) ELSE stop_p
  /\ UNCHANGED <<dims, arrays, classesC, classesB, scales, counters>>

\* AmplModel.cons(x) as a call, ok telling whether model.eval_cons succeeds:
\* when it raises, cons prints the point and returns None, counting nothing.
ConsCall(x, ok) ==
  IF ok THEN [kind |-> "return", isNone |-> FALSE, value |-> cons(x), dc |-> 1]
        ELSE [kind |-> "return", isNone |-> TRUE, value |-> <<>>, dc |-> 0]

\* OptimalityResiduals(x, y, z) when model.eval_cons raises at x: after the
\* sign checks, self.cons(x)[self.permC] subscripts None.
ResidualsConsFailed(x, y, z) ==
  IF SignError(y, z) # None
    THEN Raise("ValueError", SignError(y, z), 0, 0, 0)
    ELSE Raise("TypeError",
               "'NoneType' object has no attribute '__getitem__'", 0, 0, 0)

\* A caller invokes cons(x).
CallCons ==
  /\ ret = NoRet
  /\ ceval < MaxEvals
  /\ \E x \in Points, ok \in BOOLEAN :
       /\ ret' = [op |-> "cons", x |-> x, ok |-> ok, out |-> ConsCall(x, ok)]
       /\ ceval' = ceval + ret'.out.dc
  /\ UNCHANGED <<dims, arrays, classesC, classesB, tols, scales,
                 feval, geval, Jeval>>

\* A caller invokes OptimalityResiduals(x, y, z) at a point where
\* model.eval_cons raises.
CallOptimalityResidualsConsFailed ==
  /\ ret = NoRet
  /\ MayEvaluate
  /\ \E x \in Points, yz \in Multipliers :
       ret' = [op |-> "OptimalityResiduals", x |-> x, y |-> yz[1],
               z |-> yz[2], FJ |-> NoFJ, ok |-> FALSE,
               out |-> ResidualsConsFailed(x, yz[1], yz[2])]
  /\ UNCHANGED <<dims, arrays, classesC, classesB, tols, scales, counters>>

\* Sessions that compute residuals.
Next == CallOptimalityResiduals \/ Discard

Spec == Init /\ [][Next]_vars

\* Sessions that set tolerances and test optimality.
NextOpt == set_stopping_tolerances \/ CallAtOptimality \/ Discard

SpecOpt == Init /\ [][NextOpt]_vars

\* Sessions of AtOptimality calls on the model of InitExample.
NextExample == CallAtOptimality \/ Discard

SpecExample == InitExample /\ [][NextExample]_vars

\* ------------------------------------------------------------------ scaling
\* g_max / max(g_max, norm), a ratio in (0, 1].
ScaleFactorMut(g_max, norm) == <<Max2(g_max, norm), g_max>>

ScaleFactor(g_max, norm) == <<g_max, Max2(g_max, norm)>>

\* AmplModel.compute_scaling_obj(x, g_max, reset): the new scale_obj and pi0
\* and the number of gradient evaluations made.
ScalingObjMut(x, g_max, reset) ==
  IF reset
    THEN [scale_obj |-> NoScale, pi0 |-> get_pi0(m), dg |-> 0]
  ELSE LET s == ScaleFactor(g_max, MaxAbs(grad(x)))
       IN  [scale_obj |-> <<s>>, pi0 |-> ScaleBy(pi0, s), dg |-> 1]

ScalingObj(x, g_max, reset) ==
  IF reset
    THEN [scale_obj |-> NoScale, pi0 |-> get_pi0(m), dg |-> 0]
  ELSE IF scale_obj # NoScale
    THEN [scale_obj |-> scale_obj, pi0 |-> pi0, dg |-> 0]
  ELSE LET s == ScaleFactor(g_max, MaxAbs(grad(x)))
       IN  [scale_obj |-> <<s>>, pi0 |-> ScaleBy(pi0, s), dg |-> 1]

\* AmplModel.compute_scaling_cons(x, g_max, reset): the new scale_con, Lcon
\* and Ucon and the number of Jacobian evaluations made.
ScalingConsMut(x, g_max, reset) ==
  IF reset
    THEN [scale_con |-> NoScale, Lcon |-> Lcon, Ucon |-> Ucon, dJ |-> 0]
  ELSE IF scale_con # NoScale
    THEN [scale_con |-> scale_con, Lcon |-> Lcon, Ucon |-> Ucon, dJ |-> 0]
  ELSE LET J   == jac(x)
           d_c == [i \in 1..m |-> ScaleFactor(g_max, MaxAbs(J[i]))]
       IN  [scale_con |-> <<d_c>>, Lcon |-> ScaleEach(Lcon, d_c),
            Ucon |-> ScaleEach(Ucon, d_c), dJ |-> 1]

ScalingCons(x, g_max, reset) ==
  IF reset
    THEN [scale_con |-> NoScale, Lcon |-> get_Lcon, Ucon |-> get_Ucon, dJ |-> 0]
  ELSE IF scale_con # NoScale
    THEN [scale_con |-> scale_con, Lcon |-> Lcon, Ucon |-> Ucon, dJ |-> 0]
  ELSE LET J   == jac(x)
           d_c == [i \in 1..m |-> ScaleFactor(g_max, MaxAbs(J[i]))]
       IN  [scale_con |-> <<d_c>>, Lcon |-> ScaleEach(Lcon, d_c),
            Ucon |-> ScaleEach(Ucon, d_c), dJ |-> 1]

\* The values of g_max of the callers: with them the scales are 1 and 1/2.
GMaxObj  == {3, 6}
GMaxCons == {2, 4}

\* A caller invokes compute_scaling_obj(x, g_max, reset).
compute_scaling_objMut ==
  /\ ret = NoRet
  /\ \E x \in Points, g_max \in GMaxObj, reset \in BOOLEAN :
       /\ reset \/ scale_obj # NoScale \/ geval < MaxEvals
       /\ ret' = [op |-> "compute_scaling_obj", x |-> x, g_max |-> g_max,
                  reset |-> reset,
                  out |-> [kind |-> "return",
                           dg |-> ScalingObj(x, g_max, reset).dg]]
       /\ scale_obj' = ScalingObj(x, g_max, reset).scale_obj
       /\ pi0' = ScalingObj(x, g_max, reset).pi0
       /\ geval' = geval + ret'.out.dg
       /\ Lcon' = (IF reset THEN get_Lcon ELSE Lcon)
       /\ Ucon' = (IF reset THEN get_Ucon ELSE Ucon)
  /\ UNCHANGED <<dims, Lvar, Uvar, classesC, classesB, tols,
                 scale_con, feval, ceval, Jeval>>

compute_scaling_obj ==
  /\ ret = NoRet
  /\ \E x \in Points, g_max \in GMaxObj, reset \in BOOLEAN :
       /\ reset \/ scale_obj # NoScale \/ geval < MaxEvals
       /\ ret' = [op |-> "compute_scaling_obj", x |-> x, g_max |-> g_max,
                  reset |-> reset,
                  out |-> [kind |-> "return",
                           dg |-> ScalingObj(x, g_max, reset).dg]]
       /\ scale_obj' = ScalingObj(x, g_max, reset).scale_obj
       /\ pi0' = ScalingObj(x, g_max, reset).pi0
       /\ geval' = geval + ret'.out.dg
  /\ UNCHANGED <<dims, Lvar, Uvar, Lcon, Ucon, classesC, classesB, tols,
                 scale_con, feval, ceval, Jeval>>

\* A caller invokes compute_scaling_cons(x, g_max, reset).
compute_scaling_consMut ==
  /\ ret = NoRet
  /\ \E x \in Points, g_max \in GMaxCons, reset \in BOOLEAN :
       /\ reset \/ scale_con # NoScale \/ Jeval < MaxEvals
       /\ ret' = [op |-> "compute_scaling_cons", x |-> x, g_max |-> g_max,
                  reset |-> reset,
                  out |-> [kind |-> "return",
                           dJ |-> ScalingCons(x, g_max, reset).dJ]]
       /\ scale_con' = ScalingCons(x, g_max, reset).scale_con
       /\ Lcon' = ScalingCons(x, g_max, reset).Lcon
       /\ Ucon' = ScalingCons(x, g_max, reset).Ucon
       /\ Jeval' = Jeval + ret'.out.dJ
  /\ rangeC' = <<>> /\ permC' = equalC \o lowerC \o upperC
  /\ UNCHANGED <<dims, Lvar, Uvar, pi0, equalC, lowerC, upperC, freeC,
                 classesB, tols, scale_obj, feval, geval, ceval>>

compute_scaling_cons ==
  /\ ret = NoRet
  /\ \E x \in Points, g_max \in GMaxCons, reset \in BOOLEAN :
       /\ reset \/ scale_con # NoScale \/ Jeval < MaxEvals
       /\ ret' = [op |-> "compute_scaling_cons", x |-> x, g_max |-> g_max,
                  reset |-> reset,
                  out |-> [kind |-> "return",
                           dJ |-> ScalingCons(x, g_max, reset).dJ]]
       /\ scale_con' = ScalingCons(x, g_max, reset).scale_con
       /\ Lcon' = ScalingCons(x, g_max, reset).Lcon
       /\ Ucon' = ScalingCons(x, g_max, reset).Ucon
       /\ Jeval' = Jeval + ret'.out.dJ
  /\ UNCHANGED <<dims, Lvar, Uvar, pi0, classesC, classesB, tols,
                 scale_obj, feval, geval, ceval>>

\* Sessions that compute residuals, on the models of all model files.
SpecAny == InitAny /\ [][Next]_vars

\* Sessions in which the backend may fail to evaluate the constraints.
NextEval == CallCons \/ CallOptimalityResidualsConsFailed \/ Discard

SpecEval == Init /\ [][NextEval]_vars

\* Sessions that set the stopping tolerances.
NextTol == AssignTolerance \/ set_stopping_tolerances \/ Discard

SpecTol == Init /\ [][NextTol]_vars

\* Sessions that scale and unscale the problem.
NextScale == compute_scaling_obj \/ compute_scaling_cons \/ Discard

SpecScale == Init /\ [][NextScale]_vars

\* ---------------------------------------------------------- repeated calls
\* pFeas[:m] = c.copy() ; pFeas[m:] = pFeas[rangeC]: with the keyword c the
\* supplied vector is used as it is.
PrimalInitKnown(c) == c \o Take(c, rangeC)

\* g = kwargs.get('g', self.grad(x)) ; dFeas += g (dFeas -= g for a
\* maximization problem): the default self.grad(x) is evaluated before get
\* is called, so a gradient evaluation is counted although g is supplied.
AddKnownGradient(d, g) ==
  [d |-> IF minimize THEN VAdd(d, g) ELSE VSub(d, g), dg |-> 1]

\* AmplModel.OptimalityResiduals(x, y, z, c=c, g=g).
OptimalityResidualsKnown(x, y, z, c, g) ==
  LET serr  == SignError(y, z)
      slack == BoundSlacks(x)
      pF1   == PrimalShift(PrimalInitKnown(c))
      dJ    == IF m > 0 THEN 1 ELSE 0
      obj   == AddKnownGradient(DualMultTerms(x, y, z), g)
  IN  IF serr # None THEN Raise("ValueError", serr, 0, 0, 0)
      \* With a free constraint numpy rejects the shapes at
      \* pFeas[n4:] -= Ucon[rangeC] or at yloc[n3:n4] -= y[n4:].
      ELSE IF nfreeC > 0 THEN Raise("ValueError", "shape mismatch", 0, 0, 0)
      ELSE [kind    |-> "return",
            dFeas   |-> obj.d,
            pFeas   |-> PrimalClamp(pF1),
            bFeas   |-> BoundClamp(slack),
            gComp   |-> GeneralComp(pF1, y),
            bComp   |-> BoundComp(slack, z),
            scaling |-> Scalings(y, z),
            dc |-> 0, dJ |-> dJ, dg |-> obj.dg]

\* The arrays a caller handed to a call, as the call leaves them. The code
\* reads x and the slices of z, works on yloc = y.copy() (y[:n4].copy() with
\* range constraints), stores c.copy() and adds g to its own dFeas.
CallerArraysMut(a) ==
  [a EXCEPT !.y = Yloc(a.y) \o SliceFrom(a.y, m)]

CallerArrays(a) == a

\* Entries of a supplied c or g.
KnownVals == {0, 2}

\* A caller invokes OptimalityResiduals(x, y, z, c=c, g=g).
CallOptimalityResidualsKnown ==
  /\ ret = NoRet
  /\ MayEvaluate
  /\ \E x \in Points, yz \in Multipliers,
        c \in [1..m -> KnownVals], g \in [1..n -> KnownVals] :
       LET out == OptimalityResidualsKnown(x, yz[1], yz[2], c, g)
       IN  /\ ret' = [op |-> "OptimalityResiduals", x |-> x, y |-> yz[1],
                      z |-> yz[2], FJ |-> NoFJ, c |-> c, g |-> g, out |-> out]
           /\ ceval' = ceval + ret'.out.dc
           /\ Jeval' = Jeval + ret'.out.dJ
           /\ geval' = geval + ret'.out.dg
  /\ UNCHANGED <<dims, arrays, classesC, classesB, tols, scales, feval>>

\* The arrays of the call whose result r is.
Args(r) ==
  IF "c" \in DOMAIN r
    THEN [x |-> r.x, y |-> r.y, z |-> r.z, c |-> r.c, g |-> r.g]
    ELSE [x |-> r.x, y |-> r.y, z |-> r.z]

\* The call whose result r is, made on the arrays a.
Redo(r, a) ==
  IF r.op = "AtOptimality"
    THEN AtOptimality(a.x, a.y, a.z, r.scale, r.FJ)
  ELSE IF "c" \in DOMAIN r
    THEN OptimalityResidualsKnown(a.x, a.y, a.z, a.c, a.g)
  ELSE OptimalityResiduals(a.x, a.y, a.z, r.FJ)

\* After a call that returned, the caller makes the same call again, with
\* the same arrays as the first call left them.
CallAgain ==
  /\ ret.op \in {"OptimalityResiduals", "AtOptimality"}
  /\ ret.out.kind = "return"
  /\ LET a == CallerArrays(Args(ret))
     IN  /\ ret' = [op |-> "again", first |-> ret, args |-> a,
                    out |-> Redo(ret, a), after |-> CallerArrays(a)]
         /\ ceval' = ceval + ret'.out.dc
         /\ Jeval' = Jeval + ret'.out.dJ
         /\ geval' = geval + ret'.out.dg
  /\ UNCHANGED <<dims, arrays, classesC, classesB, tols, scales, feval>>

NextAgain ==
  \/ CallOptimalityResiduals
  \/ CallAtOptimality
  \/ CallOptimalityResidualsKnown
  \/ CallAgain
  \/ Discard

SpecAgain == Init /\ [][NextAgain]_vars

\* ------------------------------------------------------- supplied values
\* J = kwargs.get('J', self.jac(x)[self.permC,:]) ; J.matvec_transp(-yloc,
\* dFeas), then the bound multipliers: the supplied J is used as it is.
DualMultTermsKnown(J, y, z) ==
  LET d0 == IF m > 0
              THEN MatvecTransp(J, VNeg(Yloc(y)), n)
              ELSE [j \in 1..n |-> 0]
      f1 == nfixedB
      f2 == f1 + nlowerB
      f3 == f2 + nupperB
      f4 == f3 + nrangeB
      d1 == AddAt(d0, lowerB, Slice(z, f1, f2), -1)
      d2 == AddAt(d1, upperB, Slice(z, f2, f3), 1)
  IN  AddAt(d2, rangeB, VSub(Slice(z, f3, f4), SliceFrom(z, f4)), -1)

\* AmplModel.OptimalityResiduals(x, y, z, c=c, g=g, J=J). The defaults of
\* kwargs.get('J', ...) and kwargs.get('g', ...) are evaluated before get is
\* called: self.jac(x) when m > 0 and self.grad(x) are counted although J
\* and g are supplied.
OptimalityResidualsSupplied(x, y, z, c, g, J) ==
  LET serr  == SignError(y, z)
      slack == BoundSlacks(x)
      pF1   == PrimalShift(PrimalInitKnown(c))
      dJ    == IF m > 0 THEN 1 ELSE 0
      obj   == AddKnownGradient(DualMultTermsKnown(J, y, z), g)
  IN  IF serr # None THEN Raise("ValueError", serr, 0, 0, 0)
      ELSE IF nfreeC > 0 THEN Raise("ValueError", "shape mismatch", 0, 0, 0)
      ELSE [kind    |-> "return",
            dFeas   |-> obj.d,
            pFeas   |-> PrimalClamp(pF1),
            bFeas   |-> BoundClamp(slack),
            gComp   |-> GeneralComp(pF1, y),
            bComp   |-> BoundComp(slack, z),
            scaling |-> Scalings(y, z),
            dc |-> 0, dJ |-> dJ, dg |-> obj.dg]

\* Jacobians a caller supplies: the rows of the model in canonical order, or
\* a zero matrix.
JVals(x) == { Take(jac(x), permC), [i \in 1..m |-> [j \in 1..n |-> 0]] }

\* A caller invokes OptimalityResiduals(x, y, z, c=c, g=g, J=J).
CallOptimalityResidualsSupplied ==
  /\ ret = NoRet
  /\ MayEvaluate
  /\ \E x \in Points, yz \in Multipliers,
        c \in [1..m -> KnownVals], g \in [1..n -> KnownVals] :
       \E J \in JVals(x) :
         /\ ret' = [op |-> "OptimalityResiduals", x |-> x, y |-> yz[1],
                    z |-> yz[2], FJ |-> NoFJ, c |-> c, g |-> g, J |-> J,
                    out |-> OptimalityResidualsSupplied(x, yz[1], yz[2], c, g, J)]
         /\ ceval' = ceval + ret'.out.dc
         /\ Jeval' = Jeval + ret'.out.dJ
         /\ geval' = geval + ret'.out.dg
  /\ UNCHANGED <<dims, arrays, classesC, classesB, tols, scales, feval>>

\* Sessions of calls that supply c, g and J.
NextSupplied == CallOptimalityResidualsSupplied \/ Discard

SpecSupplied == Init /\ [][NextSupplied]_vars

\* ------------------------------------------------------- NLPModel.bounds
\* b[a:] = src on a slice of len entries: numpy copies an array of that
\* length, repeats the entry of an array of length one, and rejects any
\* other shape.
AssignSlice(len, src) ==
  IF Len(src) = len THEN [kind |-> "return", value |-> src]
  ELSE IF Len(src) = 1
    THEN [kind |-> "return", value |-> [k \in 1..len |-> src[1]]]
  ELSE Raise("ValueError", "could not broadcast input array", 0, 0, 0)

\* NLPModel.bounds(x): b = np.empty(nB + nrB) with nB = self.nbounds, which
\* counts the fixed variables; the first three blocks are filled with their
\* own lengths and b[nlB+nuB+nrB:] = Uvar[rB] - x[rB] takes what is left.
bounds(x) ==
  LET head == VSub(Take(x, lowerB), Take(Lvar, lowerB))
                \o VSub(Take(Uvar, upperB), Take(x, upperB))
                \o VSub(Take(x, rangeB), Take(Lvar, rangeB))
      last == AssignSlice(nbounds + nrangeB - Len(head),
                          VSub(Take(Uvar, rangeB), Take(x, rangeB)))
  IN  IF last.kind = "raise" THEN last
      ELSE [kind |-> "return", value |-> head \o last.value]

\* A caller invokes bounds(x).
CallBounds ==
  /\ ret = NoRet
  /\ \E x \in Points : ret' = [op |-> "bounds", x |-> x, out |-> bounds(x)]
  /\ UNCHANGED <<dims, arrays, classesC, classesB, tols, scales, counters>>

\* Sessions of calls of bounds.
NextBounds == CallBounds \/ Discard

SpecBounds == Init /\ [][NextBounds]_vars

\* -------------------------------------------------------- linear operators
\* A pykrylov linear operator: nargin columns, nargout rows, the matrix mat
\* of its action, and fault set when applying it indexes out of range.
LinOp(nargin, nargout, mat, fault) ==
  [kind |-> "op", nargin |-> nargin, nargout |-> nargout, mat |-> mat,
   fault |-> fault]

\* NLPModel.jop(x) = LinearOperator(self.n, self.m, jprod, jtprod), on a model
\* whose jprod(x, v) is A v and jtprod(x, u) is A^T u, as QPModel's are.
jop(x) == LinOp(n, m, eval_J(x), FALSE)

\* ReducedLinearOperator(op, row_indices, col_indices): the operator
\* A[row_indices, col_indices]. Its action fills z[col_indices] of a zero
\* vector of length op.nargin and returns (op * z)[row_indices].
ReducedLinearOperator(op, row_indices, col_indices) ==
  LET fault == \/ \E k \in 1..Len(col_indices) : col_indices[k] >= op.nargin
               \/ \E k \in 1..Len(row_indices) : row_indices[k] >= op.nargout
  IN  LinOp(Len(col_indices), Len(row_indices),
            IF fault THEN <<>>
            ELSE [r \in 1..Len(row_indices) |->
                    [c \in 1..Len(col_indices) |->
                       op.mat[row_indices[r] + 1][col_indices[c] + 1]]],
            fault)

\* BlockLinearOperator([[top], [bottom]]): the blocks of one column must take
\* the same input.
BlockLinearOperator(top, bottom) ==
  IF top.nargin # bottom.nargin
    THEN Raise("ShapeError", "Blocks in a column must have same nargin", 0, 0, 0)
    ELSE LinOp(top.nargin, top.nargout + bottom.nargout,
               IF top.fault \/ bottom.fault THEN <<>> ELSE top.mat \o bottom.mat,
               top.fault \/ bottom.fault)

\* DiagonalOperator(e) * op.
DiagonalTimes(e, op) ==
  IF op.kind = "raise" THEN op
  ELSE IF Len(e) # op.nargout
    THEN Raise("ShapeError", "Cannot multiply operators together", 0, 0, 0)
  ELSE LinOp(op.nargin, op.nargout,
             IF op.fault THEN <<>>
             ELSE [r \in 1..op.nargout |->
                     [c \in 1..op.nargin |-> e[r] * op.mat[r][c]]],
             op.fault)

\* range(k)
Range(k) == [i \in 1..k |-> i - 1]

\* NLPModel.jop_pos(x): e is -1 on the upper constraints and on the appended
\* rows; JR = ReducedLinearOperator(J, range(self.nvar), self.rangeC).
jop_pos(x) ==
  LET e == [k \in 1..(m + nrangeC) |->
              IF k > m \/ (\E q \in 1..nupperC : upperC[q] = k - 1) THEN -1 ELSE 1]
  IN  DiagonalTimes(e, BlockLinearOperator(jop(x),
                         ReducedLinearOperator(jop(x), Range(n), rangeC)))

\* op * v
Apply(op, v) ==
  IF op.kind = "raise" THEN op
  ELSE IF Len(v) # op.nargin
    THEN Raise("ShapeError", "Cannot multiply operators together", 0, 0, 0)
  ELSE IF op.fault
    THEN Raise("IndexError", "index out of bounds", 0, 0, 0)
  ELSE [kind |-> "return",
        value |-> [r \in 1..op.nargout |-> Dot(op.mat[r], v)]]

\* op.T * u
ApplyT(op, u) ==
  IF op.kind = "raise" THEN op
  ELSE IF Len(u) # op.nargout
    THEN Raise("ShapeError", "Cannot multiply operators together", 0, 0, 0)
  ELSE IF op.fault
    THEN Raise("IndexError", "index out of bounds", 0, 0, 0)
  ELSE [kind |-> "return", value |-> MatvecTransp(op.mat, u, op.nargin)]

\* Entries of a vector v the operator is applied to.
VVals == {-1, 2}

\* The zero vector and the unit vectors of a given length.
UVecs(len) == { [k \in 1..len |-> IF k = p THEN 1 ELSE 0] : p \in 0..len }

\* A caller applies jop_pos(x) to v and its transpose to u.
CallJopPos ==
  /\ ret = NoRet
  /\ \E x \in Points, v \in [1..n -> VVals], u \in UVecs(m + nrangeC) :
       ret' = [op |-> "jop_pos", x |-> x, v |-> v, u |-> u,
               out |-> Apply(jop_pos(x), v), outT |-> ApplyT(jop_pos(x), u)]
  /\ UNCHANGED <<dims, arrays, classesC, classesB, tols, scales, counters>>

\* Sessions that apply the repositioned Jacobian.
NextJop == CallJopPos \/ Discard

SpecJop == Init /\ [][NextJop]_vars

\* ------------------------------------------------- dual_feasibility
\* The keyword g: NoG when absent.
NoG == <<>>

\* NLPModel.dual_feasibility(x, y, z, g, obj_weight=w, all_pos=all_pos) on an
\* LPModel, whose grad(x) returns self.c itself. With w # 0 the residual is
\* computed in place in dFeas = self.grad(x), or in g[:], a view of the
\* caller's array: arr is that array as the call leaves it, own tells
\* whether the result is a fresh array.
dual_feasibility(x, y, z, g, w, all_pos) ==
  LET Jty  == ApplyT(IF all_pos THEN jop_pos(x) ELSE jop(x), y)
      d0   == IF g = NoG THEN model.c ELSE g
      d1   == IF w # 1 THEN [j \in 1..n |-> w * d0[j]] ELSE d0
      base == IF w = 0 THEN VNeg(Jty.value) ELSE VSub(d1, Jty.value)
      f2   == nlowerB + nupperB
      f3   == f2 + nrangeB
      b1   == AddAt(base, lowerB, Slice(z, 0, nlowerB), -1)
      b2   == AddAt(b1, upperB, Slice(z, nlowerB, f2), -1)
  IN  IF Jty.kind = "raise" THEN Jty
      ELSE [kind  |-> "return",
            value |-> AddAt(b2, rangeB,
                            VSub(Slice(z, f2, f3), SliceFrom(z, f3)), -1),
            own   |-> (w = 0)]

\* The model's cost vector after a call that handed back out.
CostAfter(g, out) ==
  IF out.kind = "return" /\ ~out.own /\ g = NoG THEN out.value ELSE model.c

\* The caller's g after a call that handed back out.
GAfter(g, out) ==
  IF out.kind = "return" /\ ~out.own /\ g # NoG THEN out.value ELSE g

\* Largest entry of a cost vector or a supplied g a session goes on from.
MaxCost == 4

Small(v) == \A j \in 1..Len(v) : v[j] >= -MaxCost /\ v[j] <= MaxCost

\* Arrays with all entries equal.
Uniform(len, vals) == { [k \in 1..len |-> v] : v \in vals }

\* A caller invokes dual_feasibility(x, y, z, g=g, obj_weight=w,
\* all_pos=all_pos), with y laid out as all_pos says and z as bounds(x) is.
CallDualFeasibility ==
  /\ ret = NoRet
  /\ Small(model.c)
  /\ \E x \in Uniform(n, {1}), all_pos \in BOOLEAN, w \in {0, 1, 2},
        g \in {NoG} \cup Uniform(n, {2}) :
       \E y \in Uniform(IF all_pos THEN m + nrangeC ELSE m, {0, 1}),
          z \in Uniform(nlowerB + nupperB + 2 * nrangeB, {0, 1}) :
         /\ ret' = [op |-> "dual_feasibility", x |-> x, y |-> y, z |-> z,
                    g |-> g, w |-> w, all_pos |-> all_pos,
                    out |-> dual_feasibility(x, y, z, g, w, all_pos),
                    gafter |-> GAfter(g, dual_feasibility(x, y, z, g, w, all_pos))]
         /\ model' = [model EXCEPT !.c = CostAfter(g, ret'.out)]
  /\ UNCHANGED <<den, n, m, minimize, registry>>
  /\ UNCHANGED <<arrays, classesC, classesB, tols, scales, counters>>

\* After a call the caller makes the same call again, with the same arrays.
CallDualAgain ==
  /\ ret.op = "dual_feasibility"
  /\ Small(model.c) /\ Small(ret.gafter)
  /\ ret' = [op |-> "dual_again", x |-> ret.x, y |-> ret.y, z |-> ret.z,
             g |-> ret.gafter, w |-> ret.w, all_pos |-> ret.all_pos,
             out |-> dual_feasibility(ret.x, ret.y, ret.z, ret.gafter,
                                      ret.w, ret.all_pos),
             gafter |-> GAfter(ret.gafter,
                               dual_feasibility(ret.x, ret.y, ret.z,
                                                ret.gafter, ret.w, ret.all_pos))]
  /\ model' = [model EXCEPT !.c = CostAfter(ret.gafter, ret'.out)]
  /\ UNCHANGED <<den, n, m, minimize, registry>>
  /\ UNCHANGED <<arrays, classesC, classesB, tols, scales, counters>>

\* Sessions of calls of dual_feasibility.
NextDual == CallDualFeasibility \/ CallDualAgain \/ Discard

SpecDual == Init /\ [][NextDual]_vars

\* ---------------------------------------------------- instance identifiers
\* Most generic models a session makes.
MaxInstances == 3

\* NLPModel and the subclasses of nlp.py, each with its base class.
Classes == {"NLPModel", "QPModel", "LPModel"}

Base(cls) == IF cls = "LPModel" THEN "QPModel" ELSE "NLPModel"

\* The names a caller gives a model.
Names == {"Generic", "GenericQP"}

RECURSIVE ClassAttr(_)
\* cls._id as Python reads it: the attribute of the class itself if it has
\* one, else that of the nearest base class that has.
ClassAttr(cls) ==
  IF cls \in DOMAIN class_id THEN class_id[cls] ELSE ClassAttr(Base(cls))

\* self.__class__._id += 1: reads cls._id and assigns the sum to the
\* attribute _id of cls itself.
NewClassIds(cls) ==
  [c \in DOMAIN class_id \cup {cls} |->
     IF c = cls THEN ClassAttr(cls) + 1 ELSE class_id[c]]

\* NLPModel.__init__ as run for a new instance of cls (QPModel.__init__ and
\* LPModel.__init__ call it through super): the class counter is
\* incremented, self._id is its new value and the logger is named
\* name + '_' + str(self._id).
ConstructGeneric ==
  /\ ret = NoRet
  /\ Len(instances) < MaxInstances
  /\ \E cls \in Classes, name \in Names :
       /\ class_id' = NewClassIds(cls)
       /\ instances' = Append(instances,
                              [cls |-> cls, name |-> name,
                               id |-> class_id'[cls],
                               logger |-> <<name, class_id'[cls]>>])
       /\ ret' = [op |-> "__init__", cls |-> cls, name |-> name]
  /\ UNCHANGED <<den, model, n, m, minimize>>
  /\ UNCHANGED <<arrays, classesC, classesB, tols, scales, counters>>

\* Sessions that make generic models.
NextIds == ConstructGeneric \/ Discard

SpecIds == Init /\ [][NextIds]_vars

\* ------------------------------------------------------------------ claims
Finite(v) == v # Infinity /\ v # negInfinity
Member(list, i) == \E k \in 1..Len(list) : list[k] = i
Occurrences(list, i) == Cardinality({k \in 1..Len(list) : list[k] = i})
PositionIn(list, i) == CHOOSE k \in 1..Len(list) : list[k] = i
EntriesBelow(list, len) == \A k \in 1..Len(list) : list[k] \in 0..(len - 1)

\* The five lists eq, lo, up, rg, fr classify the indices of the bound arrays
\* L, U: each index is in exactly one list, the one its bounds call for.
Classifies(L, U, eq, lo, up, rg, fr) ==
  /\ \A i \in 0..(Len(L) - 1) :
       LET l == L[i + 1]
           u == U[i + 1]
       IN  /\ Occurrences(eq, i) + Occurrences(lo, i) + Occurrences(up, i)
                + Occurrences(rg, i) + Occurrences(fr, i) = 1
           /\ Member(eq, i) <=> (Finite(l) /\ Finite(u) /\ l = u)
           /\ Member(rg, i) <=> (Finite(l) /\ Finite(u) /\ l # u)
           /\ Member(lo, i) <=> (Finite(l) /\ ~Finite(u))
           /\ Member(up, i) <=> (~Finite(l) /\ Finite(u))
           /\ Member(fr, i) <=> (~Finite(l) /\ ~Finite(u))
  /\ \A list \in {eq, lo, up, rg, fr} : EntriesBelow(list, Len(L))

\* C1: every constraint index 0..m-1 is in exactly one of equalC, lowerC,
\* upperC, rangeC, freeC and every variable index 0..n-1 in exactly one of
\* fixedB, lowerB, upperB, rangeB, freeB, by the finiteness and equality of
\* its two bounds (lower bounds are -inf or finite, upper bounds finite or
\* +inf, lower <= upper).
C1_FiveWayPartition ==
  /\ Len(Lcon) = m /\ Len(Ucon) = m /\ Len(Lvar) = n /\ Len(Uvar) = n
  /\ Classifies(Lcon, Ucon, equalC, lowerC, upperC, rangeC, freeC)
  /\ Classifies(Lvar, Uvar, fixedB, lowerB, upperB, rangeB, freeB)

C1_Witness == nequalC = 1 /\ nrangeC = 1 /\ nfixedB = 1

IsBijectionOn(list, len) ==
  /\ Len(list) = len
  /\ {list[k] : k \in 1..Len(list)} = 0..(len - 1)

\* C2: permC is a bijection on the constraint indices 0..m-1 and permB a
\* bijection on the variable indices 0..n-1, free constraints included.
C2_PermutationsAreBijections ==
  IsBijectionOn(permC, m) /\ IsBijectionOn(permB, n)

\* A plain call OptimalityResiduals(x, y, z) is held in ret.
PlainResidualCall == ret.op = "OptimalityResiduals" /\ ret.FJ = NoFJ
ResidualsReturned == ret.op = "OptimalityResiduals" /\ ret.out.kind = "return"

InequalityMultiplierNegative(y, z) ==
  AnyNegative(SliceFrom(y, nequalC)) \/ AnyNegative(SliceFrom(z, nfixedB))

\* The messages of the errors that reject a multiplier.
NegativeMultiplierMessages ==
  { "Negative Lagrange multipliers...",
    "Negative Lagrange multipliers for bounds...",
    "Negative multipliers for lower constraints...",
    "Negative multipliers for upper constraints...",
    "Negative multipliers for range constraints...",
    "Negative multipliers for bounds..." }

MultiplierRejected ==
  ret.out.kind = "raise" /\ ret.out.msg \in NegativeMultiplierMessages

C4_RangeSidesInPlace ==
  ResidualsReturned =>
    \A k \in 1..nrangeC :
      LET r  == rangeC[k]
          cr == eval_cons(ret.x)[r + 1]
      IN  /\ ret.out.pFeas[nequalC + nlowerC + nupperC + k]
               = Min2(0, cr - Lcon[r + 1])
          /\ ret.out.pFeas[m + k] = Min2(0, Ucon[r + 1] - cr)

\* yloc as the claims describe it: y on the equality and lower blocks, -y on
\* the upper block, y_rangeLower - y_rangeUpper on the range block.
ExpectedYloc(y) ==
  [k \in 1..m |->
     IF k <= nequalC + nlowerC THEN y[k]
     ELSE IF k <= nequalC + nlowerC + nupperC THEN -y[k]
     ELSE y[k] - y[k + nrangeC]]

\* The bound multiplier term of variable j: -z on lowerB, +z on upperB,
\* -(z_rangeLower - z_rangeUpper) on rangeB, nothing on fixed or free.
ExpectedBoundTerm(z, j) ==
  IF Member(lowerB, j) THEN -z[nfixedB + PositionIn(lowerB, j)]
  ELSE IF Member(upperB, j) THEN z[nfixedB + nlowerB + PositionIn(upperB, j)]
  ELSE IF Member(rangeB, j)
    THEN -(z[nfixedB + nlowerB + nupperB + PositionIn(rangeB, j)]
           - z[nfixedB + nlowerB + nupperB + nrangeB + PositionIn(rangeB, j)])
  ELSE 0

\* -J^T yloc plus the bound terms, J with its rows in canonical order.
ExpectedMultTerms(x, y, z) ==
  [j \in 1..n |->
     ExpectedBoundTerm(z, j - 1)
       - Dot([k \in 1..m |-> eval_J(x)[permC[k] + 1][j]], ExpectedYloc(y))]

\* C5: for a minimization problem and a call without FJ, the returned dual
\* feasibility is g(x) - J^T yloc plus the bound terms.
C5_DualFeasibilityKKT ==
  (ResidualsReturned /\ ret.FJ = NoFJ /\ minimize) =>
     ret.out.dFeas
       = VAdd(grad_obj(ret.x), ExpectedMultTerms(ret.x, ret.y, ret.z))

C5_Witness ==
  /\ ResidualsReturned /\ ret.FJ = NoFJ /\ minimize
  /\ nupperC = 1 /\ nrangeC = 1 /\ nrangeB = 1
  /\ \A k \in 1..Len(ret.y) : ret.y[k] > 0
  /\ ret.y[2] # ret.y[3]
  /\ ret.x[1] # 0

\* C6: for a maximization problem the gradient term of the returned dual
\* feasibility is the negated raw objective gradient, the gradient of -f.
C6_MaximizationGradientNegatedOnce ==
  (ResidualsReturned /\ ret.FJ = NoFJ /\ ~minimize) =>
     ret.out.dFeas
       = VAdd(VNeg(grad_obj(ret.x)), ExpectedMultTerms(ret.x, ret.y, ret.z))

\* The objective gradient with its sign adjusted to minimization.
SignAdjustedGradient(x) == IF minimize THEN grad_obj(x) ELSE VNeg(grad_obj(x))

\* C7: a call with a nonzero Fritz-John weight w and admissible multipliers
\* returns a bundle whose dual feasibility is w times the sign-adjusted
\* gradient plus the multiplier terms of KKT mode.
C7_FritzJohnWeightedGradient ==
  (/\ ret.op = "OptimalityResiduals" /\ ret.FJ # NoFJ /\ nfreeC = 0
   /\ ~InequalityMultiplierNegative(ret.y, ret.z))
  => (ret.FJ[1] # 0 =>
        /\ ret.out.kind = "return"
        /\ ret.out.dFeas
             = VAdd([j \in 1..n |-> ret.FJ[1] * SignAdjustedGradient(ret.x)[j]],
                    ExpectedMultTerms(ret.x, ret.y, ret.z)))

\* C8: a call with FJ = 0 makes no gradient evaluation (geval is unchanged)
\* and its dual feasibility holds the multiplier terms alone.
C8_FritzJohnZeroSkipsGradient ==
  [][(ret.op = "none" /\ ret'.op = "OptimalityResiduals" /\ ret'.FJ = <<0>>)
       => /\ geval' = geval
          /\ ret'.out.kind = "return"
               => ret'.out.dFeas = ExpectedMultTerms(ret'.x, ret'.y, ret'.z)]_vars

C8_Witness ==
  /\ ResidualsReturned /\ ret.FJ = <<0>>
  /\ m > 0 /\ ret.x[1] # 0
  /\ \E j \in 1..n : ret.out.dFeas[j] # 0

\* The infinity norm, 0 for an empty vector.
NormInfinity(v) == IF Len(v) = 0 THEN 0 ELSE MaxAbs(v)
Reduced(v, s, scale) == IF scale THEN RDiv(RInt(v), s) ELSE RInt(v)

\* C9: when AtOptimality returns, it returns the bundle of
\* OptimalityResiduals and a verdict that is true exactly when the norm of
\* dual feasibility, the larger of the two complementarity norms and the
\* larger of the two primal feasibility norms (each divided by its scaling
\* when scale is set) are <= stop_d, stop_c and stop_p.
C9_VerdictIffNormsWithinTolerances ==
  (ret.op = "AtOptimality" /\ ret.out.kind = "return") =>
    LET res == ret.out.res
        sc  == res.scaling
        df  == Reduced(NormInfinity(res.dFeas), sc.dFeas, ret.scale)
        cp  == RMax(Reduced(NormInfinity(res.gComp), sc.gComp, ret.scale),
                    Reduced(NormInfinity(res.bComp), sc.bComp, ret.scale))
        fs  == RMax(Reduced(NormInfinity(res.pFeas), sc.pFeas, ret.scale),
                    Reduced(NormInfinity(res.bFeas), sc.bFeas, ret.scale))
    IN  /\ res.kind = "return"
        /\ ret.out.opt <=>
             (RLe(df, stop_d) /\ RLe(cp, stop_c) /\ RLe(fs, stop_p))

C9_Witness ==
  /\ ret.op = "AtOptimality" /\ ret.out.kind = "return"
  /\ ret.scale /\ ret.out.opt
  /\ ~RLe(RInt(NormInfinity(ret.out.res.dFeas)), stop_d)

\* C10: the returned bound primal feasibility is laid out [fixed | lower |
\* upper | range-lower | range-upper]; fixed entries are x-L and every other
\* entry is min(0, slack) with slack x-L, U-x, x-L, U-x.
C10_BoundFeasibilityLayout ==
  ResidualsReturned =>
    LET b  == ret.out.bFeas
        x  == ret.x
        n1 == nfixedB
        n2 == n1 + nlowerB
        n3 == n2 + nupperB
        n4 == n3 + nrangeB
    IN  /\ Len(b) = n4 + nrangeB
        /\ \A k \in 1..nfixedB :
             b[k] = x[fixedB[k] + 1] - Lvar[fixedB[k] + 1]
        /\ \A k \in 1..nlowerB :
             b[n1 + k] = Min2(0, x[lowerB[k] + 1] - Lvar[lowerB[k] + 1])
        /\ \A k \in 1..nupperB :
             b[n2 + k] = Min2(0, Uvar[upperB[k] + 1] - x[upperB[k] + 1])
        /\ \A k \in 1..nrangeB :
             /\ b[n3 + k] = Min2(0, x[rangeB[k] + 1] - Lvar[rangeB[k] + 1])
             /\ b[n4 + k] = Min2(0, Uvar[rangeB[k] + 1] - x[rangeB[k] + 1])

C10_Witness ==
  /\ ResidualsReturned
  /\ nfixedB = 1 /\ nrangeB = 1
  /\ ret.out.bFeas[1] > 0
  /\ ret.out.bFeas[2] = 0
  /\ ret.out.bFeas[3] < 0

\* C11: the returned complementarity vectors hold unclamped values: general
\* complementarity is, per non-equality constraint side in canonical order,
\* (c - L) y on lower and range-lower sides and (U - c) y on upper and
\* range-upper sides; bound complementarity is (x - L) z or (U - x) z per
\* non-fixed bound side; equality constraints and fixed bounds have no entry.
C11_ComplementarityFromUnclamped ==
  ResidualsReturned =>
    LET c  == eval_cons(ret.x)
        x  == ret.x
        y  == ret.y
        z  == ret.z
        g  == ret.out.gComp
        b  == ret.out.bComp
        c1 == nlowerC
        c2 == c1 + nupperC
        c3 == c2 + nrangeC
        e  == nequalC
        b1 == nlowerB
        b2 == b1 + nupperB
        b3 == b2 + nrangeB
        f  == nfixedB
    IN  /\ Len(g) = c3 + nrangeC
        /\ \A k \in 1..nlowerC :
             g[k] = (c[lowerC[k] + 1] - Lcon[lowerC[k] + 1]) * y[e + k]
        /\ \A k \in 1..nupperC :
             g[c1 + k] = (Ucon[upperC[k] + 1] - c[upperC[k] + 1]) * y[e + c1 + k]
        /\ \A k \in 1..nrangeC :
             /\ g[c2 + k]
                  = (c[rangeC[k] + 1] - Lcon[rangeC[k] + 1]) * y[e + c2 + k]
             /\ g[c3 + k]
                  = (Ucon[rangeC[k] + 1] - c[rangeC[k] + 1]) * y[e + c3 + k]
        /\ Len(b) = b3 + nrangeB
        /\ \A k \in 1..nlowerB :
             b[k] = (x[lowerB[k] + 1] - Lvar[lowerB[k] + 1]) * z[f + k]
        /\ \A k \in 1..nupperB :
             b[b1 + k] = (Uvar[upperB[k] + 1] - x[upperB[k] + 1]) * z[f + b1 + k]
        /\ \A k \in 1..nrangeB :
             /\ b[b2 + k]
                  = (x[rangeB[k] + 1] - Lvar[rangeB[k] + 1]) * z[f + b2 + k]
             /\ b[b3 + k]
                  = (Uvar[rangeB[k] + 1] - x[rangeB[k] + 1]) * z[f + b3 + k]

\* A step in which a caller's call of the operation op begins and ends.
CallStep(op) == ret.op = "none" /\ ret'.op = op

\* C12: compute_scaling_obj(reset=True) leaves scale_obj unset and pi0 equal
\* to the initial estimate of the model file, and
\* compute_scaling_cons(reset=True) leaves scale_con unset and Lcon and Ucon
\* equal to the bounds of the model file, whatever scaling came before.
C12_ResetRestoresOriginals ==
  [][/\ (CallStep("compute_scaling_obj") /\ ret'.reset)
          => (scale_obj' = NoScale /\ pi0' = get_pi0(m))
     /\ (CallStep("compute_scaling_cons") /\ ret'.reset)
          => (scale_con' = NoScale /\ Lcon' = model.Lcon /\ Ucon' = model.Ucon)
    ]_vars

C12_Witness ==
  /\ ret.op = "compute_scaling_cons" /\ ret.reset
  /\ Jeval = 1 /\ geval = 1
  /\ m = 2 /\ nrangeC = 1
  /\ scale_con = NoScale /\ scale_obj # NoScale

\* C13: a call of compute_scaling_obj (compute_scaling_cons) without reset
\* on a model whose objective (constraint) scale is set changes none of
\* scale_obj, pi0 (scale_con, Lcon, Ucon) and makes no gradient (Jacobian)
\* evaluation, whatever its x and g_max.
C13_ScalingIdempotent ==
  [][/\ (CallStep("compute_scaling_obj") /\ ~ret'.reset /\ scale_obj # NoScale)
          => (scale_obj' = scale_obj /\ pi0' = pi0 /\ geval' = geval)
     /\ (CallStep("compute_scaling_cons") /\ ~ret'.reset /\ scale_con # NoScale)
          => /\ scale_con' = scale_con /\ Lcon' = Lcon /\ Ucon' = Ucon
             /\ Jeval' = Jeval
    ]_vars

C13_Witness ==
  /\ ret.op = "compute_scaling_obj" /\ ~ret.reset
  /\ ret.out.dg = 0 /\ geval = 1
  /\ scale_obj = <<(<<3, 6>>)>>
  /\ ret.g_max = 6 /\ ret.x[1] = 0

\* C14: when compute_scaling_obj(x, g_max) computes the scale, the cached
\* scale_obj is g_max / max(g_max, |g|_inf) for g the unscaled gradient at
\* x, it lies in (0, 1], and grad(x) then has infinity norm <= g_max.
C14_ObjectiveScale ==
  (ret.op = "compute_scaling_obj" /\ ret.out.dg = 1) =>
    LET s     == scale_obj[1]
        gNorm == MaxAbs(grad_obj(ret.x))
    IN  /\ s[2] > 0
        /\ s[1] * Max2(ret.g_max, gNorm) = ret.g_max * s[2]
        /\ 0 < s[1] /\ s[1] <= s[2]
        /\ MaxAbs(grad(ret.x)) <= ret.g_max

C14_Witness ==
  /\ ret.op = "compute_scaling_obj" /\ ret.out.dg = 1
  /\ ~minimize
  /\ MaxAbs(grad_obj(ret.x)) > ret.g_max
  /\ MaxAbs(grad(ret.x)) = ret.g_max

\* C15: every stopping tolerance is >= 0 after every step; an assignment of
\* a negative value to a tolerance stores 0, an assignment of a non-negative
\* value stores that value, and the other two tolerances keep their values.
C15_TolerancesNonNegative ==
  [][/\ RLe(RInt(0), stop_d') /\ RLe(RInt(0), stop_c') /\ RLe(RInt(0), stop_p')
     /\ CallStep("assign") =>
          LET stored == IF ret'.value < 0 THEN RInt(0) ELSE RInt(ret'.value)
          IN  /\ ret'.attr = "stop_d"
                   => (stop_d' = stored /\ stop_c' = stop_c /\ stop_p' = stop_p)
              /\ ret'.attr = "stop_c"
                   => (stop_c' = stored /\ stop_d' = stop_d /\ stop_p' = stop_p)
              /\ ret'.attr = "stop_p"
                   => (stop_p' = stored /\ stop_d' = stop_d /\ stop_c' = stop_c)
    ]_vars

C15_Witness ==
  /\ ret.op = "assign" /\ ret.attr = "stop_c" /\ ret.value = -1
  /\ stop_c = RInt(0) /\ stop_d = RInt(1) /\ stop_p = DefaultTol

\* An index of the bound arrays L, U whose lower bound exceeds its upper one.
Malformed(L, U, i) == L[i + 1] > U[i + 1]
InSomeList(lists, i) == \E list \in lists : Member(list, i)

\* C16: no model is constructed from bound arrays with a lower bound above
\* the upper bound, and no class list holds such an index.
C16_MalformedBoundsRejected ==
  /\ \A i \in 0..(n - 1) :
       /\ ~Malformed(Lvar, Uvar, i)
       /\ Malformed(Lvar, Uvar, i)
            => ~InSomeList({fixedB, lowerB, upperB, rangeB, freeB}, i)
  /\ \A i \in 0..(m - 1) :
       /\ ~Malformed(Lcon, Ucon, i)
       /\ Malformed(Lcon, Ucon, i)
            => ~InSomeList({equalC, lowerC, upperC, rangeC, freeC}, i)

\* C17: when model.eval_cons fails at x, cons(x) and a call of
\* OptimalityResiduals with admissible multipliers raise an evaluation
\* failure that carries x; neither returns a value.
C17_EvaluationFailureSignalled ==
  (/\ ret.op \in {"cons", "OptimalityResiduals"}
   /\ ~ret.ok
   /\ ret.op = "OptimalityResiduals"
        => ~InequalityMultiplierNegative(ret.y, ret.z))
  => /\ ret.out.kind = "raise"
     /\ ret.out.exc = "EvaluationFailure"
     /\ ret.out.x = ret.x

\* C18: the error that rejects a negative multiplier names the block of a
\* negative entry: the lower, upper or range class of general constraints
\* for an entry of y, the bounds for an entry of z.
C18_RejectionNamesBlock ==
  (ret.op = "OptimalityResiduals" /\ MultiplierRejected) =>
    LET n1 == nequalC
        n2 == n1 + nlowerC
        n3 == n2 + nupperC
    IN  \/ /\ ret.out.msg = "Negative multipliers for lower constraints..."
           /\ AnyNegative(Slice(ret.y, n1, n2))
        \/ /\ ret.out.msg = "Negative multipliers for upper constraints..."
           /\ AnyNegative(Slice(ret.y, n2, n3))
        \/ /\ ret.out.msg = "Negative multipliers for range constraints..."
           /\ AnyNegative(SliceFrom(ret.y, n3))
        \/ /\ ret.out.msg \in { "Negative Lagrange multipliers for bounds...",
                                "Negative multipliers for bounds..." }
           /\ AnyNegative(SliceFrom(ret.z, nfixedB))

C20_UnconstrainedVerdict ==
  (ret.op = "AtOptimality" /\ m = 0 /\ nfreeB = n) =>
    /\ ret.out.kind = "return"
    /\ ret.out.opt <=>
         RLe(RInt(MaxAbs(SignAdjustedGradient(ret.x))), stop_d)

\* A scaled verdict on a maximization problem in two free variables, refused
\* for the gradient alone: stop_d is 1 and the gradient is not zero.
C20_Witness ==
  /\ ret.op = "AtOptimality" /\ m = 0 /\ nfreeB = n /\ n = 2
  /\ ~minimize /\ ret.scale
  /\ stop_d = RInt(1)
  /\ ret.out.kind = "return" /\ ~ret.out.opt

\* AtOptimality was called on x = (0.5, 0.5), the multiplier y of the
\* constraint and z = (0, 0), in quarters.
ExampleCall(y) ==
  /\ ret.op = "AtOptimality"
  /\ ret.x = <<2, 2>> /\ ret.y = <<y>> /\ ret.z = <<0, 0>>

\* C21: on the model with two variables bounded below by 0, the constraint
\* x0 + x1 = 1 and the objective x0^2 + x1^2, at x = (0.5, 0.5), z = (0, 0)
\* and the default tolerances: with y = (1) the dual feasibility is (0, 0), the
\* primal feasibility 0, the bound complementarity (0, 0) and the verdict
\* true; with y = (0) the dual feasibility is (1, 1) and the verdict false.
C21_WorkedExample ==
  /\ ExampleCall(1 * den) =>
       /\ ret.out.kind = "return"
       /\ ret.out.res.dFeas = <<0, 0>>
       /\ ret.out.res.pFeas = <<0>>
       /\ ret.out.res.bComp = <<0, 0>>
       /\ ret.out.opt
  /\ ExampleCall(0) =>
       /\ ret.out.kind = "return"
       /\ ret.out.res.dFeas = <<1 * den, 1 * den>>
       /\ ~ret.out.opt

\* The call with y = (1) and the default scale = True has returned.
C21_Witness ==
  /\ ExampleCall(1 * den) /\ ret.scale
  /\ stop_d = DefaultTol /\ stop_c = DefaultTol /\ stop_p = DefaultTol
  /\ Lvar = <<0, 0>> /\ Lcon = <<den>> /\ Ucon = <<den>>
  /\ ret.out.kind = "return"

\* C22: whatever compute_scaling_obj, compute_scaling_cons and their resets
\* have done to Lcon, Ucon and pi0, the ten class lists, their counts,
\* nbounds, permC and permB are the ones construction computed from the
\* bounds of the model file.
C22_ClassificationFixed ==
  LET L0 == model.Lcon
      U0 == model.Ucon
  IN  /\ equalC = IndicesOf(L0, U0, "equal")
      /\ lowerC = IndicesOf(L0, U0, "lower")
      /\ upperC = IndicesOf(L0, U0, "upper")
      /\ rangeC = IndicesOf(L0, U0, "range")
      /\ freeC  = IndicesOf(L0, U0, "free")
      /\ fixedB = IndicesOf(Lvar, Uvar, "equal")
      /\ lowerB = IndicesOf(Lvar, Uvar, "lower")
      /\ upperB = IndicesOf(Lvar, Uvar, "upper")
      /\ rangeB = IndicesOf(Lvar, Uvar, "range")
      /\ freeB  = IndicesOf(Lvar, Uvar, "free")
      /\ permC = PermCOf(equalC, lowerC, upperC, rangeC)
      /\ permB = PermBOf(fixedB, lowerB, upperB, rangeB, freeB)
      /\ nequalC + nlowerC + nupperC + nrangeC + nfreeC = m
      /\ nbounds = nfixedB + nlowerB + nupperB + nrangeB

\* Both scales are set, and the bounds of the second constraint, a range
\* constraint beside an equality, are no longer those of the model file.
C22_Witness ==
  /\ ret.op = "compute_scaling_cons" /\ ~ret.reset
  /\ scale_con # NoScale /\ scale_obj # NoScale
  /\ m = 2 /\ equalC = <<0>> /\ rangeC = <<1>>
  /\ Lcon[2] # model.Lcon[2] /\ Ucon[2] # model.Ucon[2]
  /\ pi0 # get_pi0(m)

\* The matrix C23 describes: row i < m is J_i(x), negated for i in upperC;
\* row m+k is -J_r(x) for r = rangeC[k].
RepositionedJacobian(x) ==
  LET J == eval_J(x)
  IN  [i \in 1..m |-> IF \E q \in 1..nupperC : upperC[q] = i - 1 THEN VNeg(J[i]) ELSE J[i]]
        \o [k \in 1..nrangeC |-> VNeg(J[rangeC[k] + 1])]

\* C23: jop_pos(x) maps v to the vector of length m + nrangeC with the
\* entries J_i(x).v (negated for i in upperC) and -J_r(x).v for the range
\* constraints r, and its transpose maps u to the adjoint combination.
C23_RepositionedJacobian ==
  (ret.op = "jop_pos" /\ nfreeC = 0) =>
    LET M == RepositionedJacobian(ret.x)
    IN  /\ ret.out.kind = "return"
        /\ ret.out.value = [r \in 1..(m + nrangeC) |-> Dot(M[r], ret.v)]
        /\ ret.outT.kind = "return"
        /\ ret.outT.value = MatvecTransp(M, ret.u, n)

\* C24: a call of OptimalityResiduals that is given c, g and J invokes no
\* evaluator: the counters ceval, geval and Jeval (and feval) are after the
\* call what they were before it.
C24_SuppliedNoEvaluation ==
  [][(ret'.op = "OptimalityResiduals" /\ "J" \in DOMAIN ret')
       => counters' = counters]_vars

\* x satisfies every bound constraint on the variables.
WithinBounds(x) == \A j \in 1..n : Lvar[j] <= x[j] /\ x[j] <= Uvar[j]

\* C25: on every model, also one with fixed variables, bounds(x) returns
\* [x - Lvar on lowerB | Uvar - x on upperB | x - Lvar on rangeB | Uvar - x
\* on rangeB], and x satisfies all the bounds exactly when every component
\* of that vector is >= 0.
C25_BoundsVector ==
  ret.op = "bounds" =>
    /\ ret.out.kind = "return"
    /\ ret.out.value = VSub(Take(ret.x, lowerB), Take(Lvar, lowerB))
                         \o VSub(Take(Uvar, upperB), Take(ret.x, upperB))
                         \o VSub(Take(ret.x, rangeB), Take(Lvar, rangeB))
                         \o VSub(Take(Uvar, rangeB), Take(ret.x, rangeB))
    /\ WithinBounds(ret.x) <=> \A k \in 1..Len(ret.out.value) : ret.out.value[k] >= 0

\* C26: a call of dual_feasibility on an LPModel, or with g supplied, leaves
\* the model's cost vector c and the caller's g as they were, and the same
\* call made again returns the same vector.
C26_DualFeasibilityPure ==
  [][/\ ret'.op \in {"dual_feasibility", "dual_again"}
          => (model'.c = model.c /\ ret'.gafter = ret'.g)
     /\ ret'.op = "dual_again" => ret'.out = ret.out]_vars

\* pi0, Lcon and Ucon are the values of the model file, times the scale
\* that is set for them.
ScaledData ==
  /\ pi0 = IF scale_obj = NoScale THEN get_pi0(m)
           ELSE ScaleBy(get_pi0(m), scale_obj[1])
  /\ Lcon = IF scale_con = NoScale THEN model.Lcon
            ELSE ScaleEach(model.Lcon, scale_con[1])
  /\ Ucon = IF scale_con = NoScale THEN model.Ucon
            ELSE ScaleEach(model.Ucon, scale_con[1])

\* C27: after every step of a session of scaling calls and resets, pi0 is
\* the initial estimate times scale_obj (the initial estimate when scale_obj
\* is unset) and Lcon, Ucon are the original bounds times scale_con entry by
\* entry (the originals when unset); a call of compute_scaling_obj leaves
\* Lcon, Ucon and scale_con alone and a call of compute_scaling_cons leaves
\* pi0 and scale_obj alone.
C27_ScaledDataTracksScales ==
  [][/\ ScaledData'
     /\ CallStep("compute_scaling_obj")
          => (Lcon' = Lcon /\ Ucon' = Ucon /\ scale_con' = scale_con)
     /\ CallStep("compute_scaling_cons")
          => (pi0' = pi0 /\ scale_obj' = scale_obj)
    ]_vars

C27_Witness ==
  /\ ret.op = "compute_scaling_obj" /\ ret.reset
  /\ scale_obj = NoScale /\ scale_con # NoScale
  /\ geval = 1 /\ Jeval = 1
  /\ Lcon # model.Lcon /\ Ucon # model.Ucon
  /\ pi0 = get_pi0(m) /\ m > 0

\* C28: a call of OptimalityResiduals that fails on the sign of a
\* multiplier has invoked no evaluator: the four evaluation counters and the
\* whole model state are after the call what they were before it.
C28_SignCheckBeforeEvaluation ==
  [][(/\ CallStep("OptimalityResiduals")
      /\ ret'.out.kind = "raise"
      /\ SignError(ret'.y, ret'.z) # None)
       => /\ counters' = counters
          /\ <<dims, arrays, classesC, classesB, tols, scales>>'
               = <<dims, arrays, classesC, classesB, tols, scales>>
    ]_vars

C28_Witness ==
  /\ ret.op = "OptimalityResiduals" /\ ret.out.kind = "raise"
  /\ ret.out.msg = "Negative Lagrange multipliers for bounds..."
  /\ m > 0 /\ nbounds > 0
  /\ ~AnyNegative(ret.y) /\ AnyNegative(ret.z)
  /\ ceval = 0 /\ geval = 0 /\ Jeval = 0 /\ feval = 0

\* C29: the identifiers _id of the instances of NLPModel and of its
\* subclasses made so far are pairwise distinct, and so are the logger names
\* of instances with the same name.
C29_DistinctIds ==
  \A i, j \in 1..Len(instances) :
    i # j => /\ instances[i].id # instances[j].id
             /\ instances[i].logger # instances[j].logger

\* C30: the scaling factors OptimalityResiduals attaches for dual
\* feasibility, general complementarity and bound complementarity are all
\* >= 1 whenever the multipliers are accepted, and a point AtOptimality
\* finds optimal with scale false it also finds optimal with scale true.
C30_ScalingNeverTightens ==
  (ret.op = "AtOptimality" /\ ret.out.kind = "return") =>
    LET sc == ret.out.res.scaling
    IN  /\ sc.dFeas[1] >= sc.dFeas[2]
        /\ sc.gComp[1] >= sc.gComp[2]
        /\ sc.bComp[1] >= sc.bComp[2]
        /\ AtOptimality(ret.x, ret.y, ret.z, FALSE, ret.FJ).opt
             => AtOptimality(ret.x, ret.y, ret.z, TRUE, ret.FJ).opt

====
